---- MODULE Spec2Model ----
(***************************************************************************)
(* FastSLAM particle filter of nova_rover_demos/SLAM/fastSLAM.py:          *)
(* predict_particles, motion_model, pi_2_pi, normalize_weight, resampling, *)
(* fast_slam1 and the time step of main.                                   *)
(*                                                                         *)
(* Numbers.  Python floats are modelled as exact rationals <<n, d>> in     *)
(* lowest terms (d > 0).  Angles are integers counting quarter turns, so   *)
(* that PI is 2 and cos/sin are exact; lengths are integers in units of    *)
(* one tick of travel at unit speed.                                       *)
(*                                                                         *)
(* Memory.  A Particle object is a slot of the list `particles` (the list  *)
(* never changes which object sits in which slot).  The fields lm and lmP  *)
(* hold the identity of the numpy data buffer the array object reads and   *)
(* writes; `heap` gives each buffer's contents.  A basic slice a[:, :] is  *)
(* a view: a new array object on the same buffer.                          *)
(***************************************************************************)
EXTENDS Integers, Sequences, FiniteSets, TLC

VARIABLES
    particles,   \* the list of Particle objects
    heap,        \* numpy data buffers: buffer id -> contents
    pc,          \* position of the caller's time step
    driver,      \* "main": the loop of main(); "api": a caller of fast_slam1
    cycle,       \* completed fast_slam1 calls
    rawyaw,      \* motion_model: x[2, 0] of each particle before pi_2_pi
    entry,       \* the particle values on entry to resampling()
    wcum,        \* resampling(): local wcum
    resampleid,  \* resampling(): local resampleid
    inds,        \* resampling(): local inds (<<>> while the redraw has not run)
    stages       \* the stages the current time step has completed, in order

vars == <<particles, heap, pc, driver, cycle, rawyaw, entry, wcum, resampleid,
          inds, stages>>

---------------------------------------------------------------------------
(* Bounds of the model *)

N_PARTICLE == 3
MaxCycles == 1

(* Units *)
DT == 1
PI == 2

Slots == 1..N_PARTICLE

---------------------------------------------------------------------------
(* Exact arithmetic standing for the float operations of the source *)

RECURSIVE GCD(_, _)
GCD(a, b) == IF b = 0 THEN a ELSE GCD(b, a % b)

Abs(a) == IF a < 0 THEN -a ELSE a

R(n, d) ==
    LET s == IF d < 0 THEN -1 ELSE 1
        g == GCD(Abs(n), Abs(d))
    IN  <<(s * n) \div g, (s * d) \div g>>

RAdd(p, q) == R(p[1] * q[2] + q[1] * p[2], p[2] * q[2])
RSub(p, q) == R(p[1] * q[2] - q[1] * p[2], p[2] * q[2])
RMul(p, q) == R(p[1] * q[1], p[2] * q[2])
RDiv(p, q) == R(p[1] * q[2], p[2] * q[1])
RLess(p, q) == p[1] * q[2] < q[1] * p[2]
RZero == <<0, 1>>
ROne == <<1, 1>>

---------------------------------------------------------------------------
(* pi_2_pi and motion_model *)

\* remainder that takes the sign of the dividend (C fmod)
Rem(a, m) == IF a >= 0 THEN a % m ELSE -((-a) % m)

\* pi_2_pi with a truncating remainder
pi_2_pi_fmod(angle) == Rem(angle + PI, 2 * PI) - PI

pi_2_pi(angle) == ((angle + PI) % (2 * PI)) - PI

Cos(a) == CASE a % 4 = 0 -> 1 [] a % 4 = 2 -> -1 [] OTHER -> 0
Sin(a) == CASE a % 4 = 1 -> 1 [] a % 4 = 3 -> -1 [] OTHER -> 0

\* x = F @ x + B @ u, before the yaw is normalised
motion_raw(p, u) ==
    [x |-> p.x + DT * Cos(p.yaw) * u.v,
     y |-> p.y + DT * Sin(p.yaw) * u.v,
     yaw |-> p.yaw + DT * u.w]

motion_model(p, u) ==
    LET q == motion_raw(p, u)
    IN  [x |-> q.x, y |-> q.y, yaw |-> pi_2_pi(q.yaw)]

\* The controls a caller passes and the noise samples drawn per particle
Controls == {[v |-> 1, w |-> 0], [v |-> 0, w |-> 2], [v |-> 0, w |-> -6]}
Noise == {[v |-> 0, w |-> 0], [v |-> 1, w |-> 1]}

predict_particles(ps, u, noise) ==
    [i \in Slots |->
        LET ud == [v |-> u.v + noise[i].v, w |-> u.w + noise[i].w]
            px == motion_model(ps[i], ud)
        IN  [ps[i] EXCEPT !.x = px.x, !.y = px.y, !.yaw = px.yaw]]

---------------------------------------------------------------------------
(* normalize_weight *)

RECURSIVE SumW(_, _)
\* the sum of the first k weights of ps
SumW(ps, k) == IF k = 0 THEN RZero ELSE RAdd(SumW(ps, k - 1), ps[k].w)

Uniform == R(1, N_PARTICLE)

\* normalize_weight whose handler sets every weight to 1.0
normalize_weight_one(ps) ==
    LET sumw == SumW(ps, Len(ps))
    IN  IF sumw = RZero
        THEN [i \in Slots |-> [ps[i] EXCEPT !.w = ROne]]
        ELSE [i \in Slots |-> [ps[i] EXCEPT !.w = RDiv(ps[i].w, sumw)]]

\* normalize_weight dividing by the particle count instead of the sum
normalize_weight_count(ps) ==
    LET sumw == SumW(ps, Len(ps))
    IN  IF sumw = RZero
        THEN [i \in Slots |-> [ps[i] EXCEPT !.w = Uniform]]
        ELSE [i \in Slots |-> [ps[i] EXCEPT !.w = RDiv(ps[i].w, R(N_PARTICLE, 1))]]

\* particles[i].w /= sumw raises ZeroDivisionError at i = 0 when sumw is
\* zero, before any weight is written; the handler then sets every weight.
normalize_weight(ps) ==
    LET sumw == SumW(ps, Len(ps))
    IN  IF sumw = RZero
        THEN [i \in Slots |-> [ps[i] EXCEPT !.w = Uniform]]
        ELSE [i \in Slots |-> [ps[i] EXCEPT !.w = RDiv(ps[i].w, sumw)]]

---------------------------------------------------------------------------
(* resampling *)

RECURSIVE SumSq(_, _)
\* np.matmul(pw, pw.T) over the first k weights
SumSq(ps, k) ==
    IF k = 0 THEN RZero ELSE RAdd(SumSq(ps, k - 1), RMul(ps[k].w, ps[k].w))

Neff(ps) == RDiv(ROne, SumSq(ps, Len(ps)))

\* the threshold with the factor multiplied instead of divided
NTH_times == RMul(R(N_PARTICLE, 1), R(3, 2))

NTH == RDiv(R(N_PARTICLE, 1), R(3, 2))

cumsum_pw(ps) == [i \in Slots |-> SumW(ps, i)]

\* the values np.random.rand() draws from [0, 1)
RandSamples == {R(0, 1), R(1, 2)}

\* the weights (times N_PARTICLE) of the particle sets a caller passes
WeightSamples == {0, 1, 2}

\* base[i] + rnd[i] / N_PARTICLE
resampleid_of(rnd) ==
    [i \in Slots |->
        RAdd(R(i - 1, N_PARTICLE), RDiv(rnd[i], R(N_PARTICLE, 1)))]

\* the scan with >= in place of >
RECURSIVE ScanIndGE(_, _, _)
ScanIndGE(wc, t, ind) ==
    IF ind < Len(wc) /\ ~RLess(t, wc[ind])
    THEN ScanIndGE(wc, t, ind + 1)
    ELSE ind

RECURSIVE ScanInd(_, _, _)
\* while (ind < wcum.shape[0] - 1) and (resampleid[ip] > wcum[ind]): ind += 1
ScanInd(wc, t, ind) ==
    IF ind < Len(wc) /\ RLess(wc[ind], t)
    THEN ScanInd(wc, t, ind + 1)
    ELSE ind

RECURSIVE SelectFrom(_, _, _, _)
\* the loop over ip, ind carried from one slot to the next
SelectFrom(wc, rid, ip, ind) ==
    IF ip > Len(rid)
    THEN <<>>
    ELSE LET j == ScanInd(wc, rid[ip], ind)
         IN  <<j>> \o SelectFrom(wc, rid, ip + 1, j)

\* a loop that stops one slot short and builds a new list
ReplaceLoopShort(ps, sel, i) ==
    [k \in 1..(Len(sel) - 1) |-> [ps[sel[k]] EXCEPT !.w = Uniform]]

RECURSIVE ReplaceLoop(_, _, _)
\* tparticles = particles[:] holds the same objects as particles, so slot
\* inds[i] is read as it stands when the loop reaches i; lm[:, :] and
\* lmP[:, :] are views on the source's buffers.
ReplaceLoop(ps, sel, i) ==
    IF i > Len(sel)
    THEN ps
    ELSE ReplaceLoop(
            [ps EXCEPT ![i] = [w |-> Uniform,
                               x |-> ps[sel[i]].x,
                               y |-> ps[sel[i]].y,
                               yaw |-> ps[sel[i]].yaw,
                               lm |-> ps[sel[i]].lm,
                               lmP |-> ps[sel[i]].lmP]],
            sel, i + 1)

---------------------------------------------------------------------------
(* The time step *)

Particle(i) ==
    [w |-> Uniform, x |-> 0, y |-> 0, yaw |-> 0, lm |-> i, lmP |-> N_PARTICLE + i]

Buffers == 1..(2 * N_PARTICLE)

NoLocals ==
    /\ wcum = <<>>
    /\ resampleid = <<>>
    /\ inds = <<>>

Init ==
    /\ pc = "idle"
    /\ cycle = 0
    /\ rawyaw = <<>>
    /\ entry = <<>>
    /\ NoLocals
    /\ stages = <<>>
    /\ \/ /\ driver = "main"
          /\ particles = [i \in Slots |-> Particle(i)]
          /\ heap = [b \in Buffers |-> 0]
       \/ /\ driver = "api"
          /\ \E ws \in [Slots -> WeightSamples] :
                particles = [i \in Slots |->
                                [Particle(i) EXCEPT !.w = R(ws[i], N_PARTICLE)]]
          /\ heap = [b \in Buffers |-> b]

\* fast_slam1 line 65, called by main (line 339) or by another caller
Predict ==
    /\ pc = "idle"
    /\ cycle < MaxCycles
    /\ \E u \in Controls, noise \in [Slots -> Noise] :
          /\ particles' = predict_particles(particles, u, noise)
          /\ rawyaw' = [i \in Slots |->
                          motion_raw(particles[i],
                                     [v |-> u.v + noise[i].v,
                                      w |-> u.w + noise[i].w]).yaw]
    /\ pc' = "normalize"
    /\ stages' = <<"predict">>
    /\ UNCHANGED <<heap, driver, cycle, entry, wcum, resampleid, inds>>

\* resampling line 229
NormalizeWeight ==
    /\ pc = "normalize"
    /\ entry' = particles
    /\ particles' = normalize_weight(particles)
    /\ rawyaw' = <<>>
    /\ pc' = "neff"
    /\ stages' = Append(stages, "normalize")
    /\ UNCHANGED <<heap, driver, cycle, wcum, resampleid, inds>>

\* resampling lines 231-271
Resample ==
    /\ pc = "neff"
    /\ \/ /\ RLess(Neff(particles), NTH)
          /\ \E rnd \in [Slots -> RandSamples] :
                LET wc == cumsum_pw(particles)
                    rid == resampleid_of(rnd)
                    sel == SelectFrom(wc, rid, 1, 1)
                IN  /\ wcum' = wc
                    /\ resampleid' = rid
                    /\ inds' = sel
                    /\ particles' = ReplaceLoop(particles, sel, 1)
       \/ /\ ~RLess(Neff(particles), NTH)
          /\ UNCHANGED <<particles, wcum, resampleid, inds>>
    /\ pc' = "returned"
    /\ stages' = Append(stages, "resample")
    /\ UNCHANGED <<heap, driver, cycle, rawyaw, entry>>

\* fast_slam1 returns to a caller that calls it again
Return ==
    /\ pc = "returned"
    /\ driver = "api"
    /\ pc' = "idle"
    /\ cycle' = cycle + 1
    /\ entry' = <<>>
    /\ wcum' = <<>>
    /\ resampleid' = <<>>
    /\ inds' = <<>>
    /\ stages' = <<>>
    /\ UNCHANGED <<particles, heap, driver, rawyaw>>

\* main line 341: calc_final_state is not defined anywhere in the module,
\* so the call raises NameError and the loop ends
CalcFinalState ==
    /\ pc = "returned"
    /\ driver = "main"
    /\ pc' = "crashed"
    /\ cycle' = cycle + 1
    /\ UNCHANGED <<particles, heap, driver, rawyaw, entry, wcum, resampleid,
                   inds, stages>>

Next ==
    \/ Predict
    \/ NormalizeWeight
    \/ Resample
    \/ Return
    \/ CalcFinalState

Spec == Init /\ [][Next]_vars

---------------------------------------------------------------------------
(* Vocabulary of the properties *)

Pose(p) == <<p.x, p.y, p.yaw>>
Contents(p) == <<heap[p.lm], heap[p.lmP]>>

\* resampling() has returned and its redraw branch ran / did not run
Redrawn == pc = "returned" /\ inds # <<>>
Skipped == pc = "returned" /\ inds = <<>>

AllZero(ps) == \A i \in Slots : ps[i].w = RZero
PositiveSum(ps) == RLess(RZero, SumW(ps, Len(ps)))

StageOrder == <<"predict", "update", "normalize", "resample", "estimate">>
IsPrefix(s, t) == Len(s) <= Len(t) /\ \A k \in 1..Len(s) : s[k] = t[k]

OddMultipleOfPI(a) == a % PI = 0 /\ (a \div PI) % 2 = 1

---------------------------------------------------------------------------
(* C1: after a redraw no two distinct particles share a landmark-mean or a *)
(* landmark-covariance buffer.                                             *)
C1_NoSharedLandmarks ==
    Redrawn =>
        \A i, j \in Slots :
            i # j => /\ particles[i].lm # particles[j].lm
                     /\ particles[i].lmP # particles[j].lmP

(* C2: after a redraw slot i holds the pose and the landmark contents that *)
(* the particle at the selected index inds[i] had when resampling began.   *)
C2_CopiesOfSelected ==
    Redrawn =>
        \A i \in Slots :
            /\ Pose(particles[i]) = Pose(entry[inds[i]])
            /\ Contents(particles[i]) = Contents(entry[inds[i]])

C4_ZeroWeights ==
    (pc \in {"neff", "returned"} /\ AllZero(entry)) =>
        /\ inds = <<>>
        /\ \A i \in Slots :
              /\ particles[i].w = R(1, N_PARTICLE)
              /\ Pose(particles[i]) = Pose(entry[i])
              /\ particles[i].lm = entry[i].lm
              /\ particles[i].lmP = entry[i].lmP
              /\ Contents(particles[i]) = Contents(entry[i])

C4_Witness == Skipped /\ AllZero(entry) /\ particles[1].w = R(1, N_PARTICLE)

(* C5: for non-negative input weights with positive sum, the weights sum   *)
(* to 1 when resampling returns: each is its input weight over the input   *)
(* sum when the redraw was skipped, and 1/N when the redraw ran.           *)
C5_WeightsSumToOne ==
    (pc = "returned" /\ PositiveSum(entry)) =>
        /\ SumW(particles, Len(particles)) = ROne
        /\ inds = <<>> =>
              \A i \in Slots :
                  particles[i].w = RDiv(entry[i].w, SumW(entry, Len(entry)))
        /\ inds # <<>> =>
              \A i \in Slots : particles[i].w = R(1, N_PARTICLE)

C5_Witness ==
    /\ Skipped
    /\ PositiveSum(entry)
    /\ SumW(entry, Len(entry)) # ROne
    /\ particles[1].w # particles[2].w

(* C6: when Neff of the normalised weights is at least N/1.5, resampling   *)
(* returns the normalised particle set unchanged, slot by slot, and the    *)
(* redraw did not run.                                                     *)
C6_NoResampleNoChange ==
    (pc = "returned"
        /\ ~RLess(Neff(normalize_weight(entry)), R(2 * N_PARTICLE, 3))) =>
        /\ inds = <<>>
        /\ particles = normalize_weight(entry)

C6_Witness ==
    /\ Skipped
    /\ particles[1].w # particles[2].w
    /\ Pose(particles[1]) # Pose(particles[2])

(* C7 as stated: every yaw lies in (-pi, pi], and a raw angle that is an   *)
(* odd multiple of pi is normalised to pi.                                 *)
C7_HalfOpenBelow ==
    /\ \A i \in Slots : -PI < particles[i].yaw /\ particles[i].yaw <= PI
    /\ pc = "normalize" =>
          \A i \in Slots :
              OddMultipleOfPI(rawyaw[i]) => particles[i].yaw = PI

(* C7 as amended: every yaw lies in [-pi, pi], and right after a predict   *)
(* step a raw angle that is an odd multiple of pi has been normalised to   *)
(* -pi, and every yaw differs from its raw angle by a whole number of      *)
(* turns.                                                                  *)
C7_ClosedBelow ==
    /\ \A i \in Slots : -PI <= particles[i].yaw /\ particles[i].yaw <= PI
    /\ pc = "normalize" =>
          \A i \in Slots :
              /\ (rawyaw[i] - particles[i].yaw) % (2 * PI) = 0
              /\ OddMultipleOfPI(rawyaw[i]) => particles[i].yaw = -PI

C7_Witness ==
    /\ pc = "normalize"
    /\ \E i, j \in Slots :
          /\ rawyaw[i] = PI
          /\ particles[i].yaw = -PI
          /\ rawyaw[j] # PI
          /\ particles[j].yaw # -PI

(* C8: the stages of a time step run in the order predict, update,         *)
(* normalize, resample, estimate, and the step does not end in an error.   *)
C8_StagedOrder ==
    /\ IsPrefix(stages, StageOrder)
    /\ pc # "crashed"

(* C9: in a redraw every selected index is within 1..N, is the smallest    *)
(* index whose cumulative weight reaches the slot's target, and the        *)
(* selected indices never decrease from one slot to the next.              *)
C9_SmallestIndex ==
    Redrawn =>
        /\ Len(inds) = N_PARTICLE
        /\ \A i \in Slots :
              /\ inds[i] \in Slots
              /\ ~RLess(wcum[inds[i]], resampleid[i])
              /\ \A j \in 1..(inds[i] - 1) : RLess(wcum[j], resampleid[i])
        /\ \A i \in 1..(N_PARTICLE - 1) : inds[i] <= inds[i + 1]

C9_Witness ==
    /\ Redrawn
    /\ inds[1] < inds[N_PARTICLE]
    /\ \E i \in Slots : resampleid[i] = wcum[inds[i]]

(* C10: in a redraw one offset is shared by all slots, so any two targets  *)
(* differ by an exact multiple of 1/N.                                     *)
C10_SharedOffset ==
    Redrawn =>
        \A i, j \in Slots :
            RSub(resampleid[i], resampleid[j]) = R(i - j, N_PARTICLE)

====
